---------------------------- MODULE Spec2Model ----------------------------
(***************************************************************************)
(* A model of git-rebase-extract-file (internal/rebase/rebase.go): the     *)
(* analysis of a commit range, the derivation of the split messages, and   *)
(* Extract's loop of interactive-rebase sessions that split every flagged  *)
(* commit in two.  The git commands the program runs are modelled by what  *)
(* git does on a linear history: trees are functions from paths to file    *)
(* contents (0 = absent), texts are strings handled character by           *)
(* character as the Go code handles them.                                  *)
(***************************************************************************)
EXTENDS Naturals, Sequences, FiniteSets, TLC

(***************************************************************************)
(* Bounds of the model.                                                    *)
(***************************************************************************)
MaxCommits == 3

(***************************************************************************)
(* Go's strings package, as used by rebase.go.                             *)
(***************************************************************************)
HasPrefix(s, p) == Len(p) <= Len(s) /\ SubSeq(s, 1, Len(p)) = p

HasSuffix(s, p) == Len(p) <= Len(s) /\ SubSeq(s, Len(s) - Len(p) + 1, Len(s)) = p

IsSpace(ch) == ch \in {" ", "\n", "\t", "\r"}

RECURSIVE TrimLeft(_)
TrimLeft(s) ==
    IF Len(s) > 0 /\ IsSpace(SubSeq(s, 1, 1)) THEN TrimLeft(SubSeq(s, 2, Len(s))) ELSE s

RECURSIVE TrimRight(_)
TrimRight(s) ==
    IF Len(s) > 0 /\ IsSpace(SubSeq(s, Len(s), Len(s)))
    THEN TrimRight(SubSeq(s, 1, Len(s) - 1)) ELSE s

TrimSpace(s) == TrimRight(TrimLeft(s))

\* strings.Index(s[i-1:], ch): the first place of ch in s from i on, 0 when
\* there is none.
IndexOf(s, ch, i) ==
    LET hits == {k \in i..Len(s) : SubSeq(s, k, k) = ch}
    IN  IF hits = {} THEN 0 ELSE CHOOSE k \in hits : \A m \in hits : k <= m

\* strings.Split(s, sep) for a one-character separator: Len(result) = 1 + the
\* number of separators; cur is the piece being read.
RECURSIVE SplitAcc(_, _, _, _)
SplitAcc(s, sep, cur, acc) ==
    LET k == IndexOf(s, sep, 1)
    IN  IF k = 0 THEN Append(acc, cur \o s)
        ELSE SplitAcc(SubSeq(s, k + 1, Len(s)), sep, "",
                      Append(acc, cur \o SubSeq(s, 1, k - 1)))

Split(s, sep) == SplitAcc(s, sep, "", <<>>)

\* strings.Fields(s): the maximal runs of non-space characters.
RECURSIVE FieldsAcc(_, _, _)
FieldsAcc(s, cur, acc) ==
    IF Len(s) = 0 THEN (IF cur = "" THEN acc ELSE Append(acc, cur))
    ELSE IF IsSpace(SubSeq(s, 1, 1))
         THEN FieldsAcc(SubSeq(s, 2, Len(s)), "", IF cur = "" THEN acc ELSE Append(acc, cur))
         ELSE LET spaces == {k \in 1..Len(s) : IsSpace(SubSeq(s, k, k))}
                  n == IF spaces = {} THEN Len(s) + 1
                       ELSE CHOOSE k \in spaces : \A m \in spaces : k <= m
              IN  FieldsAcc(SubSeq(s, n, Len(s)), cur \o SubSeq(s, 1, n - 1), acc)

Fields(s) == FieldsAcc(s, "", <<>>)

\* strings.SplitN(s, " ", 2): cut at the first space, if any.
SplitN2(s) ==
    LET k == IndexOf(s, " ", 1)
    IN  IF k = 0 THEN <<s>> ELSE <<SubSeq(s, 1, k - 1), SubSeq(s, k + 1, Len(s))>>

\* strings.Join(parts, sep)
RECURSIVE Join(_, _)
Join(parts, sep) ==
    IF Len(parts) = 0 THEN ""
    ELSE IF Len(parts) = 1 THEN parts[1]
    ELSE parts[1] \o sep \o Join(Tail(parts), sep)

(***************************************************************************)
(* The repository: paths, trees and commits.                               *)
(***************************************************************************)
\* The paths of the modelled repository, in the order git lists them.
PathOrder == <<"a b", "d/x", "dx", "g", "o", "t">>

Paths == {PathOrder[i] : i \in DOMAIN PathOrder}

\* Paths matched by the repository's .gitignore.
Ignored == {"g"}

\* The tree of the revision the range starts after (the <previous-rev>).
BaseTree == [p \in Paths |-> 0]

\* The identity of the process that runs the tool (git's committer, and the
\* author git would use were no --author given).
RunnerName == "Runner"

RunnerEmail == "runner@x"

\* The paths a commit changes: the difference of its tree and its parent's.
ChangedPaths(c) == {p \in Paths : c.tree[p] # c.ptree[p]}

\* git log --format=%B -n 1 <hash>: the raw message and a line feed.
GitLogBody(c) == c.msg \o "\n"

\* git log --format="%an <%ae>" -n 1 <hash>
GitLogAuthor(c) == c.an \o " <" \o c.ae \o ">" \o "\n"

\* git show --name-only --format= <hash>: one changed path per line.
RECURSIVE NameLines(_, _)
NameLines(c, i) ==
    IF i > Len(PathOrder) THEN ""
    ELSE (IF PathOrder[i] \in ChangedPaths(c) THEN PathOrder[i] \o "\n" ELSE "")
         \o NameLines(c, i + 1)

GitShowNameOnly(c) == NameLines(c, 1)

\* git's %s: the first paragraph of the message, its lines joined by spaces.
RECURSIVE FirstParagraph(_, _)
FirstParagraph(lines, i) ==
    IF i > Len(lines) \/ lines[i] = "" THEN <<>>
    ELSE <<lines[i]>> \o FirstParagraph(lines, i + 1)

Subject(msg) == Join(FirstParagraph(Split(TrimSpace(msg), "\n"), 1), " ")

\* git commit -m <msg>: the message is cleaned up (trailing blanks of every
\* line, leading and trailing empty lines and runs of empty lines removed).
RECURSIVE CollapseLines(_, _, _)
CollapseLines(lines, i, acc) ==
    IF i > Len(lines) THEN acc
    ELSE LET l == TrimRight(lines[i])
         IN  IF l = "" /\ (acc = <<>> \/ acc[Len(acc)] = "")
             THEN CollapseLines(lines, i + 1, acc)
             ELSE CollapseLines(lines, i + 1, Append(acc, l))

Cleanup(msg) ==
    LET ls == CollapseLines(Split(msg, "\n"), 1, <<>>)
        kept == IF ls # <<>> /\ ls[Len(ls)] = "" THEN SubSeq(ls, 1, Len(ls) - 1) ELSE ls
    IN  IF kept = <<>> THEN "" ELSE Join(kept, "\n") \o "\n"

(***************************************************************************)
(* Analyzer (rebase.go 23-123).                                            *)
(***************************************************************************)
\* strings.Contains
Contains(s, sub) ==
    /\ Len(sub) <= Len(s)
    /\ \E i \in 1..(Len(s) - Len(sub) + 1) : SubSeq(s, i, i + Len(sub) - 1) = sub

\* The name of a commit object as git prints it (%H, rev-parse): a fixed
\* number of characters, here 8, of which the first 7 tell commits apart.
HashText(h) ==
    "c0ff" \o (IF h < 10 THEN "00" ELSE IF h < 100 THEN "0" ELSE "") \o ToString(h) \o "e"

\* A variant that takes every pattern as a prefix.
isTargetFileByPrefix(file, targetFiles) ==
    \E i \in DOMAIN targetFiles : HasPrefix(file, targetFiles[i])

isTargetFile(file, targetFiles) ==
    \E i \in DOMAIN targetFiles :
        \/ file = targetFiles[i]
        \/ HasSuffix(targetFiles[i], "/") /\ HasPrefix(file, targetFiles[i])

analyzeCommit(c, targetFiles) ==
    LET files == Fields(TrimSpace(GitShowNameOnly(c)))
        hasTargetFile == \E i \in DOMAIN files : isTargetFile(files[i], targetFiles)
        hasOtherFiles == \E i \in DOMAIN files : ~isTargetFile(files[i], targetFiles)
    IN  [Hash |-> HashText(c.hash),
         Message |-> TrimSpace(GitLogBody(c)),
         Author |-> TrimSpace(GitLogAuthor(c)),
         Files |-> files,
         NeedsSplit |-> hasTargetFile /\ hasOtherFiles]

\* git rev-list --reverse from..to on the linear history, one analysis each.
AnalyzeRange(hist, targetFiles) ==
    [i \in DOMAIN hist |-> analyzeCommit(hist[i], targetFiles)]

\* Analyzer.AnalyzeRange 38-59 with its errors: git rev-list fails on a
\* revision it does not know (revOk), analyzeCommit fails when a git show
\* of a commit does (lookupOk); either way no list is returned.
AnalyzeRangeOrError(hist, targetFiles, revOk, lookupOk) ==
    IF ~revOk THEN [err |-> "failed to get commit list", commits |-> <<>>]
    ELSE IF ~lookupOk /\ hist # <<>>
    THEN [err |-> "failed to analyze commit", commits |-> <<>>]
    ELSE [err |-> "", commits |-> AnalyzeRange(hist, targetFiles)]

(***************************************************************************)
(* GenerateSplitMessages (rebase.go 553-572).                              *)
(***************************************************************************)
\* A variant that names the first target whenever there is one.
GenerateSplitMessagesFirstTarget(original, targetFiles) ==
    IF Len(targetFiles) >= 1
    THEN <<original \o "\n\nChanges to " \o targetFiles[1] \o " split into a separate commit",
           targetFiles[1] \o ": " \o original>>
    ELSE <<original \o "\n\nChanges to target files split into a separate commit",
           "target files: " \o original>>

GenerateSplitMessages(original, targetFiles) ==
    LET firstMsg ==
            IF Len(targetFiles) = 1
            THEN original \o "\n\nChanges to " \o targetFiles[1]
                          \o " split into a separate commit"
            ELSE original \o "\n\nChanges to target files split into a separate commit"
        secondMsg ==
            IF Len(targetFiles) = 1
            THEN targetFiles[1] \o ": " \o original
            ELSE "target files: " \o original
    IN  <<firstMsg, secondMsg>>

(***************************************************************************)
(* git's plumbing as the program uses it.                                  *)
(***************************************************************************)
\* The time of the run: later than every commit of the range.
Now == MaxCommits + 1

HeadTree(hd) == IF hd = <<>> THEN BaseTree ELSE hd[Len(hd)].tree

HeadHash(hd) == IF hd = <<>> THEN 0 ELSE hd[Len(hd)].hash

\* A pathspec names a file, or a directory and everything below it, with
\* or without a trailing separator.
PathspecMatch(p, spec) ==
    \/ p = spec
    \/ HasPrefix(p, IF HasSuffix(spec, "/") THEN spec ELSE spec \o "/")

\* A path as git status prints it: between quotes when it holds a blank.
QuotePath(p) == IF \E i \in 1..Len(p) : SubSeq(p, i, i) = " " THEN "\"" \o p \o "\"" ELSE p

\* One line of git status --porcelain: the state of the index against HEAD,
\* the state of the working directory against the index, the path; "??"
\* for an untracked path that is not ignored; nothing for a path unchanged.
StatusLine(headTree, idxTree, wt, p) ==
    LET x == IF idxTree[p] = headTree[p] THEN " "
             ELSE IF headTree[p] = 0 THEN "A"
             ELSE IF idxTree[p] = 0 THEN "D" ELSE "M"
        y == IF wt[p] = idxTree[p] \/ idxTree[p] = 0 THEN " "
             ELSE IF wt[p] = 0 THEN "D" ELSE "M"
    IN  IF x # " " \/ y # " " THEN x \o y \o " " \o QuotePath(p) \o "\n"
        ELSE IF idxTree[p] = 0 /\ wt[p] # 0 /\ p \notin Ignored
        THEN "?? " \o QuotePath(p) \o "\n"
        ELSE ""

\* A variant with --untracked-files=no.
RECURSIVE StatusPorcelainTrackedOnly(_, _, _, _)
StatusPorcelainTrackedOnly(hd, idxTree, wt, i) ==
    IF i > Len(PathOrder) THEN ""
    ELSE (IF idxTree[PathOrder[i]] = 0 /\ HeadTree(hd)[PathOrder[i]] = 0 THEN ""
          ELSE StatusLine(HeadTree(hd), idxTree, wt, PathOrder[i]))
         \o StatusPorcelainTrackedOnly(hd, idxTree, wt, i + 1)

\* git status --porcelain, from path i on.
RECURSIVE StatusPorcelain(_, _, _, _)
StatusPorcelain(hd, idxTree, wt, i) ==
    IF i > Len(PathOrder) THEN ""
    ELSE StatusLine(HeadTree(hd), idxTree, wt, PathOrder[i])
         \o StatusPorcelain(hd, idxTree, wt, i + 1)

\* 196: nothing staged, nothing modified and no untracked file that is not
\* ignored.
StatusClean(hd, idxTree, wt) ==
    Len(TrimSpace(StatusPorcelain(hd, idxTree, wt, 1))) = 0

\* git add . : every tracked path and every untracked path not ignored.
GitAddAll(idxTree, wt) ==
    [p \in Paths |-> IF idxTree[p] # 0 \/ p \notin Ignored THEN wt[p] ELSE idxTree[p]]

\* git reset HEAD <pathspec> : the index entries under the pathspec go back
\* to HEAD's.
GitResetPath(idxTree, headTree, spec) ==
    [p \in Paths |-> IF PathspecMatch(p, spec) THEN headTree[p] ELSE idxTree[p]]

\* git add [--force] <pathspec> : fails when the pathspec matches no file,
\* and, without --force, when it names an ignored untracked file.
GitAddPath(idxTree, wt, spec, force) ==
    LET matched == {p \in Paths : PathspecMatch(p, spec) /\ (idxTree[p] # 0 \/ wt[p] # 0)}
        refused == ~force /\ spec \in matched /\ spec \in Ignored /\ idxTree[spec] = 0
    IN  IF matched = {} \/ refused
        THEN [ok |-> FALSE, index |-> idxTree]
        ELSE [ok |-> TRUE,
              index |-> [p \in Paths |->
                           IF p \in matched /\ (force \/ idxTree[p] # 0 \/ p \notin Ignored)
                           THEN wt[p] ELSE idxTree[p]]]

\* --author "Name <address>" as git reads it back.
ParseAuthor(a) ==
    LET k == IndexOf(a, "<", 1)
        e == IndexOf(a, ">", 1)
    IN  [an |-> TrimSpace(SubSeq(a, 1, k - 1)), ae |-> SubSeq(a, k + 1, e - 1)]

\* git commit -m <msg> --author <author>: fails with nothing staged or an
\* empty message; the author date is the time of the commit.
GitCommit(hd, idxTree, msg, author, nh) ==
    IF idxTree = HeadTree(hd) \/ Cleanup(msg) = ""
    THEN [ok |-> FALSE, head |-> hd]
    ELSE [ok |-> TRUE,
          head |-> Append(hd, [hash |-> nh, parent |-> HeadHash(hd),
                               ptree |-> HeadTree(hd), tree |-> idxTree,
                               msg |-> Cleanup(msg),
                               an |-> ParseAuthor(author).an,
                               ae |-> ParseAuthor(author).ae,
                               date |-> Now, cn |-> RunnerName])]

\* The paths on which replaying c onto tree ours conflicts (three-way merge
\* of whole files with c's parent as the base).
PickConflicts(ours, c) ==
    {p \in Paths : /\ c.ptree[p] # c.tree[p]
                   /\ c.ptree[p] # ours[p]
                   /\ ours[p] # c.tree[p]}

PickTree(ours, c) ==
    [p \in Paths |-> IF c.ptree[p] = c.tree[p] THEN ours[p] ELSE c.tree[p]]

\* One "pick" (or the replay part of "edit") of an interactive rebase: a
\* commit whose parent is the current tip is taken as it is (fast-forward);
\* otherwise it is replayed with its message, author and author date.
Pick(hd, c, nh) ==
    IF c.parent = HeadHash(hd)
    THEN [status |-> "ok", head |-> Append(hd, c), next |-> nh, unmerged |-> {}]
    ELSE IF PickConflicts(HeadTree(hd), c) # {}
    THEN [status |-> "conflict", head |-> hd, next |-> nh,
          unmerged |-> PickConflicts(HeadTree(hd), c)]
    ELSE IF PickTree(HeadTree(hd), c) = HeadTree(hd)
    THEN [status |-> "empty", head |-> hd, next |-> nh, unmerged |-> {}]
    ELSE [status |-> "ok",
          head |-> Append(hd, [hash |-> nh, parent |-> HeadHash(hd),
                               ptree |-> HeadTree(hd),
                               tree |-> PickTree(HeadTree(hd), c),
                               msg |-> c.msg, an |-> c.an, ae |-> c.ae,
                               date |-> c.date, cn |-> RunnerName]),
          next |-> nh + 1, unmerged |-> {}]

\* The sequencer: runs the instructions until one stops it ("edit", a
\* conflict, a commit that became empty) or none is left.
RECURSIVE RunTodo(_, _, _)
RunTodo(hd, td, nh) ==
    IF td = <<>>
    THEN [status |-> "done", head |-> hd, todo |-> <<>>, next |-> nh, unmerged |-> {}]
    ELSE LET r == Pick(hd, td[1].commit, nh)
         IN  IF r.status # "ok"
             THEN [status |-> r.status, head |-> hd, todo |-> Tail(td), next |-> nh,
                   unmerged |-> r.unmerged]
             ELSE IF td[1].cmd = "edit"
             THEN [status |-> "edit", head |-> r.head, todo |-> Tail(td),
                   next |-> r.next, unmerged |-> {}]
             ELSE RunTodo(r.head, Tail(td), r.next)

\* The working tree after HEAD moved from oldTree to newTree: tracked files
\* follow, untracked ones stay.
Checkout(wt, oldTree, newTree) ==
    [p \in Paths |-> IF oldTree[p] # 0 \/ newTree[p] # 0 THEN newTree[p] ELSE wt[p]]

\* A variant of the loop below that gives up at the first target git reset
\* finds nothing for.
RECURSIVE UnstageTargetsUntilMiss(_, _, _, _)
UnstageTargetsUntilMiss(idxTree, headTree, targetFiles, i) ==
    IF i > Len(targetFiles) THEN idxTree
    ELSE IF \A p \in Paths : PathspecMatch(p, targetFiles[i]) => idxTree[p] = headTree[p]
    THEN idxTree
    ELSE UnstageTargetsUntilMiss(GitResetPath(idxTree, headTree, targetFiles[i]),
                                 headTree, targetFiles, i + 1)

(***************************************************************************)
(* Extractor.splitCurrentCommit (rebase.go 378-489), run on the commit the *)
(* session is paused at.                                                   *)
(***************************************************************************)
\* The loop of "git reset HEAD <target>" (407-418); a failing reset is
\* skipped, and a pathspec matching nothing changes nothing.
RECURSIVE UnstageTargets(_, _, _, _)
UnstageTargets(idxTree, headTree, targetFiles, i) ==
    IF i > Len(targetFiles) THEN idxTree
    ELSE UnstageTargets(GitResetPath(idxTree, headTree, targetFiles[i]),
                        headTree, targetFiles, i + 1)

\* A variant of the loop that counts a target whether git took it or not.
RECURSIVE AddTargetsCountingAll(_, _, _, _, _)
AddTargetsCountingAll(idxTree, wt, targetFiles, i, added) ==
    IF i > Len(targetFiles) THEN [index |-> idxTree, targetFilesAdded |-> added]
    ELSE LET plain == GitAddPath(idxTree, wt, targetFiles[i], FALSE)
             forced == GitAddPath(idxTree, wt, targetFiles[i], TRUE)
         IN  AddTargetsCountingAll(IF plain.ok THEN plain.index ELSE forced.index,
                                   wt, targetFiles, i + 1, added + 1)

\* The loop of "git add <target>", retried with --force (441-463).
RECURSIVE AddTargets(_, _, _, _, _)
AddTargets(idxTree, wt, targetFiles, i, added) ==
    IF i > Len(targetFiles) THEN [index |-> idxTree, targetFilesAdded |-> added]
    ELSE LET plain == GitAddPath(idxTree, wt, targetFiles[i], FALSE)
             forced == GitAddPath(idxTree, wt, targetFiles[i], TRUE)
         IN  IF plain.ok
             THEN AddTargets(plain.index, wt, targetFiles, i + 1, added + 1)
             ELSE IF forced.ok
             THEN AddTargets(forced.index, wt, targetFiles, i + 1, added + 1)
             ELSE AddTargets(idxTree, wt, targetFiles, i + 1, added)

\* A variant that leaves the author to git: the identity of the runner.
SplitAuthorOfRunner(commit) == RunnerName \o " <" \o RunnerEmail \o ">"

\* The author handed to both "git commit" calls (426, 478).
SplitAuthor(commit) == commit.Author

\* A variant that derives the messages from the first line of the message.
SplitMessagesOfSubject(commit, targetFiles) ==
    GenerateSplitMessages(Split(commit.Message, "\n")[1], targetFiles)

\* 392: the messages of the two commits, from the analysed message.
SplitMessages(commit, targetFiles) ==
    GenerateSplitMessages(commit.Message, targetFiles)

splitCurrentCommit(hd, wt, commit, targetFiles, nh) ==
    LET parent == SubSeq(hd, 1, Len(hd) - 1)               \* git reset HEAD^
        msgs == SplitMessages(commit, targetFiles)
        staged == GitAddAll(HeadTree(parent), wt)          \* git add .
        kept == UnstageTargets(staged, HeadTree(parent), targetFiles, 1)
        first == GitCommit(parent, kept, msgs[1], SplitAuthor(commit), nh)
        back == AddTargets(kept, wt, targetFiles, 1, 0)
        second == GitCommit(first.head, back.index, msgs[2], SplitAuthor(commit), nh + 1)
    IN  IF ~first.ok
        THEN [err |-> "failed to create first split commit", head |-> parent,
              index |-> kept, next |-> nh, msgs |-> msgs]
        ELSE IF back.targetFilesAdded = 0
        THEN [err |-> "no target files were successfully staged for second commit",
              head |-> first.head, index |-> back.index, next |-> nh + 1, msgs |-> msgs]
        ELSE IF ~second.ok
        THEN [err |-> "failed to create second split commit", head |-> first.head,
              index |-> back.index, next |-> nh + 1, msgs |-> msgs]
        ELSE [err |-> "", head |-> second.head, index |-> back.index, next |-> nh + 2,
              msgs |-> msgs]

(***************************************************************************)
(* The instruction list of a session (rebase.go 297-332) and git's reading *)
(* of it.                                                                  *)
(***************************************************************************)
\* A variant without --reverse: the newest commit first.
RECURSIVE GitLogHashSubjectNewestFirst(_, _)
GitLogHashSubjectNewestFirst(hist, i) ==
    IF i > Len(hist) THEN ""
    ELSE GitLogHashSubjectNewestFirst(hist, i + 1)
         \o HashText(hist[i].hash) \o " " \o Subject(hist[i].msg) \o "\n"

\* git log --reverse --format="%H %s" from..HEAD
RECURSIVE GitLogHashSubject(_, _)
GitLogHashSubject(hist, i) ==
    IF i > Len(hist) THEN ""
    ELSE HashText(hist[i].hash) \o " " \o Subject(hist[i].msg) \o "\n"
         \o GitLogHashSubject(hist, i + 1)

\* hash[:7]: the name is abbreviated to its first 7 characters.
ShortHash(hash) == SubSeq(hash, 1, 7)

\* A variant that marks every commit for editing.
RECURSIVE BuildSequenceEditAll(_, _, _)
BuildSequenceEditAll(lines, i, commitHash) ==
    IF i > Len(lines) THEN <<>>
    ELSE LET parts == SplitN2(lines[i])
         IN  IF lines[i] = "" \/ Len(parts) < 2
             THEN BuildSequenceEditAll(lines, i + 1, commitHash)
             ELSE <<"edit " \o ShortHash(parts[1]) \o " " \o parts[2]>>
                  \o BuildSequenceEditAll(lines, i + 1, commitHash)

RECURSIVE BuildSequence(_, _, _)
BuildSequence(lines, i, commitHash) ==
    IF i > Len(lines) THEN <<>>
    ELSE LET parts == SplitN2(lines[i])
         IN  IF lines[i] = "" \/ Len(parts) < 2
             THEN BuildSequence(lines, i + 1, commitHash)
             ELSE <<(IF parts[1] = commitHash THEN "edit " ELSE "pick ")
                      \o ShortHash(parts[1]) \o " " \o parts[2]>>
                  \o BuildSequence(lines, i + 1, commitHash)

RebaseSequence(hist, commitHash) ==
    BuildSequence(Split(TrimSpace(GitLogHashSubject(hist, 1)), "\n"), 1, commitHash)

\* git reads an instruction as a command, a commit name and a rest it
\* ignores; the abbreviated name is resolved to the commit whose name
\* begins with it.
ParseTodo(sequence, hist) ==
    [i \in DOMAIN sequence |->
        LET f == Fields(sequence[i])
        IN  [cmd |-> f[1],
             commit |-> hist[CHOOSE j \in DOMAIN hist : HasPrefix(HashText(hist[j].hash), f[2])]]]

(***************************************************************************)
(* Extractor.DryRun (rebase.go 154-185).  The two branch marks of an       *)
(* entry, box-drawing characters in the program, are written "|-" and      *)
(* "+-" here.                                                              *)
(***************************************************************************)
\* 177-180: the entry of one commit to split.
DryRunEntry(commit, targetFiles) ==
    LET m == GenerateSplitMessages(commit.Message, targetFiles)
    IN  "Commit " \o SubSeq(commit.Hash, 1, 7) \o ": \"" \o commit.Message \o "\"\n"
        \o "|- Split into: \"" \o m[1] \o "\"\n"
        \o "+- Split into: \"" \o m[2] \o "\"\n\n"

\* A variant of the loop that gives every commit an entry.
RECURSIVE DryRunEntriesOfAll(_, _, _)
DryRunEntriesOfAll(cs, i, targetFiles) ==
    IF i > Len(cs) THEN ""
    ELSE DryRunEntry(cs[i], targetFiles) \o DryRunEntriesOfAll(cs, i + 1, targetFiles)

\* 172-182: the entries of the commits to split, in the order of the range.
RECURSIVE DryRunEntries(_, _, _)
DryRunEntries(cs, i, targetFiles) ==
    IF i > Len(cs) THEN ""
    ELSE (IF cs[i].NeedsSplit THEN DryRunEntry(cs[i], targetFiles) ELSE "")
         \o DryRunEntries(cs, i + 1, targetFiles)

\* DryRun's two results: the text and the error.  The analysis fails when
\* <previous-rev> names no commit.
DryRun(hist, targetFiles, fromOk) ==
    IF ~fromOk
    THEN [text |-> "", err |-> "failed to analyze commits"]
    ELSE LET cs == AnalyzeRange(hist, targetFiles)
             splitCount == Cardinality({i \in DOMAIN cs : cs[i].NeedsSplit})
         IN  [text |-> "Would split " \o ToString(splitCount) \o " out of "
                         \o ToString(Len(cs)) \o " commits:\n\n"
                         \o DryRunEntries(cs, 1, targetFiles),
              err |-> ""]

(***************************************************************************)
(* The state: the repository and one run of Extractor.Extract.             *)
(***************************************************************************)
VARIABLES
    inspect,       \* a call of checkRebaseConflicts on its own: what it was
                   \* given and what it returned
    fromOk,        \* whether <previous-rev> names a commit
    showOk,        \* whether git show works on the commits of the range
    logOk,         \* whether git log works for checkPotentialConflicts
    cwd,           \* the process's working directory: "repoDir" or "elsewhere"
    plans,         \* of each session: its sequence file, the commit it is
                   \* for, and history, index and working tree at its start
    preview,       \* what a DryRun before the run returned, if one was made
    sessions,      \* how many times git rebase -i was run
    targetFiles,   \* Extractor.targetFiles
    head,          \* the commits after <previous-rev> up to HEAD, oldest first
    branch,        \* the commits after <previous-rev> up to the branch's tip
    index,         \* the staging area
    worktree,      \* the working directory
    rebase,        \* .git/rebase-merge: "none", or why the session stopped
    todo,          \* the instructions the session has left
    unmerged,      \* the paths in conflict
    nextHash,      \* names the next commit object created
    backups,       \* the backup branches created: the name and the history
                   \* each one keeps
    pc,            \* where Extract is
    commits,       \* Extract's commits: the analysis of the range
    cur,           \* performRebase's loop index i (1-based; 0: loop over)
    originalHead,  \* Extract's originalHead
    out,           \* what was printed, in order
    err,           \* the error Extract returns ("": nil)
    splits         \* the splits done: the commit split, the messages generated
                   \* for it and the two commits made

vars == <<inspect, fromOk, showOk, logOk, cwd, plans, preview, sessions, targetFiles, head, branch, index, worktree, rebase, todo, unmerged,
          nextHash, backups, pc, commits, cur, originalHead, out, err, splits>>

\* The commits a history is made of: the paths written and deleted, the
\* message as stored and the author.
Kinds ==
    { [w |-> {"t", "o"}, d |-> {}, msg |-> "Fix bug\n\nBody text\n",
       an |-> "Alice", ae |-> "alice@x"],
      [w |-> {"o"}, d |-> {}, msg |-> "Other\n", an |-> "Bob", ae |-> "bob@x"],
      [w |-> {"t"}, d |-> {}, msg |-> "Only target\n", an |-> "Alice", ae |-> "alice@x"],
      [w |-> {"d/x", "dx"}, d |-> {}, msg |-> "Dir\n", an |-> "Bob", ae |-> "bob@x"],
      [w |-> {"d/x", "t", "o"}, d |-> {}, msg |-> "Dir and file\n",
       an |-> "Alice", ae |-> "alice@x"],
      [w |-> {"t", "o", "g"}, d |-> {}, msg |-> "Add log\n", an |-> "Bob", ae |-> "bob@x"],
      [w |-> {"o"}, d |-> {"g"}, msg |-> "Remove log\n", an |-> "Alice", ae |-> "alice@x"],
      [w |-> {"a b", "o"}, d |-> {}, msg |-> "Space\n", an |-> "Bob", ae |-> "bob@x"],
      [w |-> {"o"}, d |-> {}, msg |-> "", an |-> "Alice", ae |-> "alice@x"] }

\* The target specifications tried: one file, a directory and a file, a
\* directory named without its separator, a path with a blank.
TargetSpecs == { <<"t">>, <<"d/", "t">>, <<"d", "t">>, <<"a b">> }

\* The history that the commits ks make on top of <previous-rev>: commit i
\* writes content i, is named i and dated i.
RECURSIVE BuildHistory(_, _, _)
BuildHistory(ks, i, hist) ==
    IF i > Len(ks) THEN hist
    ELSE BuildHistory(ks, i + 1,
            Append(hist,
                [hash |-> i, parent |-> i - 1, ptree |-> HeadTree(hist),
                 tree |-> [p \in Paths |-> IF p \in ks[i].w THEN i
                                           ELSE IF p \in ks[i].d THEN 0
                                           ELSE HeadTree(hist)[p]],
                 msg |-> ks[i].msg, an |-> ks[i].an, ae |-> ks[i].ae,
                 date |-> i, cn |-> ks[i].an]))

\* A commit deletes only what is there.
ValidHistory(ks) ==
    LET hist == BuildHistory(ks, 1, <<>>)
    IN  \A i \in DOMAIN ks : \A p \in ks[i].d : hist[i].ptree[p] # 0

\* The pending changes a run may find: none, an edit of "o" not staged, an
\* edit of "o" staged, a new file "dx" not staged.  They are tried with a
\* <previous-rev> that names a commit: Extract stops on them before it looks
\* at the revision.
Dirt == {"clean", "modified", "staged", "untracked"}

\* The content of a pending change: no commit of the range has it.
LocalEdit == Now + 1

DirtyIndex(dirt, tree) ==
    IF dirt = "staged" THEN [tree EXCEPT !["o"] = LocalEdit] ELSE tree

DirtyWorktree(dirt, tree) ==
    CASE dirt \in {"modified", "staged"} -> [tree EXCEPT !["o"] = LocalEdit]
      [] dirt = "untracked" -> [tree EXCEPT !["dx"] = LocalEdit]
      [] OTHER -> tree

\* The branch checked out and the process that runs the tool.
BranchName == "main"

Getpid == 4242

\* 268: the name of the backup branch.
backupBranch(currentBranch) == currentBranch \o "-backup-" \o ToString(Getpid)

\* Whether AnalyzeRange succeeds on the range of the run.
analysisOk == AnalyzeRangeOrError(head, targetFiles, fromOk, showOk).err = ""

\* No call of checkRebaseConflicts on its own was made.
NoInspect ==
    [called |-> FALSE, inProgress |-> FALSE, statusOk |-> TRUE, codes |-> <<>>,
     isRebaseInProgress |-> FALSE, conflictMsg |-> ""]

Init ==
    /\ inspect = NoInspect
    /\ fromOk \in BOOLEAN
    /\ showOk = TRUE
    /\ logOk = TRUE
    /\ cwd = "repoDir"
    /\ plans = <<>>
    /\ preview = [called |-> FALSE, text |-> "", err |-> ""]
    /\ sessions = 0
    /\ targetFiles \in TargetSpecs
    /\ \E n \in 1..MaxCommits : \E ks \in [1..n -> Kinds] :
          /\ ValidHistory(ks)
          /\ head = BuildHistory(ks, 1, <<>>)
    /\ branch = head
    /\ \E dirt \in (IF fromOk THEN Dirt ELSE {"clean"}) :
          /\ index = DirtyIndex(dirt, HeadTree(head))
          /\ worktree = DirtyWorktree(dirt, HeadTree(head))
    /\ rebase = "none"
    /\ todo = <<>>
    /\ unmerged = {}
    /\ nextHash = Len(head) + 1
    /\ backups = {}
    /\ pc = "start"
    /\ commits = <<>>
    /\ cur = 0
    /\ originalHead = ""
    /\ out = <<>>
    /\ err = ""
    /\ splits = <<>>

(***************************************************************************)
(* run with --dry-run (main.go 53-60): DryRun and nothing else.  The run   *)
(* modelled after it is a later run of the tool on the same repository.    *)
(***************************************************************************)
\* A variant that makes the backup branch of a real run.
DryRunCallWithBackup ==
    /\ pc = "start"
    /\ ~preview.called
    /\ \E r \in {DryRun(head, targetFiles, analysisOk)} :
          preview' = [called |-> TRUE, text |-> r.text, err |-> r.err]
    /\ backups' = backups \cup {[name |-> backupBranch(BranchName), commits |-> branch]}
    /\ UNCHANGED <<inspect, fromOk, showOk, logOk, cwd, plans, sessions, targetFiles, head, branch, index, worktree,
                   rebase, todo, unmerged, nextHash, pc, commits, cur,
                   originalHead, out, err, splits>>

DryRunCall ==
    /\ pc = "start"
    /\ ~preview.called
    /\ \E r \in {DryRun(head, targetFiles, analysisOk)} :
          preview' = [called |-> TRUE, text |-> r.text, err |-> r.err]
    /\ UNCHANGED <<inspect, fromOk, showOk, logOk, cwd, plans, sessions, targetFiles, head, branch, index, worktree,
                   rebase, todo, unmerged, nextHash, backups, pc, commits, cur,
                   originalHead, out, err, splits>>

(***************************************************************************)
(* Extractor.Extract (rebase.go 188-254) and what it calls.                *)
(***************************************************************************)
\* A variant that keeps the recovery command for the end of the run.
ExtractBeginSilent ==
    /\ pc = "start"
    /\ IF StatusClean(head, index, worktree)
       THEN /\ originalHead' = TrimSpace(HashText(HeadHash(head)) \o "\n")
            /\ pc' = "analyze"
            /\ UNCHANGED <<out, err>>
       ELSE /\ err' = "working directory is not clean. Please commit or stash changes first:\n"
                        \o StatusPorcelain(head, index, worktree, 1)
            /\ pc' = "done"
            /\ UNCHANGED <<originalHead, out>>
    /\ UNCHANGED <<inspect, fromOk, showOk, logOk, cwd, plans, preview, sessions, targetFiles, head, branch, index,
                   worktree, rebase, todo, unmerged, nextHash, backups, commits, cur,
                   splits>>

\* 189-210: the clean check, then originalHead and the recovery command.
ExtractBegin ==
    /\ pc = "start"
    /\ IF StatusClean(head, index, worktree)
       THEN /\ originalHead' = TrimSpace(HashText(HeadHash(head)) \o "\n")
            /\ out' = Append(out, <<"recover", originalHead'>>)
            /\ pc' = "analyze"
            /\ err' = err
       ELSE /\ err' = "working directory is not clean. Please commit or stash changes first:\n"
                        \o StatusPorcelain(head, index, worktree, 1)
            /\ pc' = "done"
            /\ UNCHANGED <<originalHead, out>>
    /\ UNCHANGED <<inspect, fromOk, showOk, logOk, cwd, plans, preview, sessions, targetFiles, head, branch, index, worktree, rebase, todo, unmerged,
                   nextHash, backups, commits, cur, splits>>

\* git log --name-only --format= from..HEAD: the changed paths of every
\* commit, one per line, the newest commit first.
RECURSIVE GitLogNameOnly(_, _)
GitLogNameOnly(hist, i) ==
    IF i = 0 THEN "" ELSE NameLines(hist[i], 1) \o GitLogNameOnly(hist, i - 1)

\* A variant that returns every path listed.
checkPotentialConflictsOfAll(hist, ok) ==
    IF ~ok THEN {}
    ELSE LET lines == Split(TrimSpace(GitLogNameOnly(hist, Len(hist))), "\n")
         IN  {TrimSpace(lines[i]) : i \in DOMAIN lines} \ {""}

\* checkPotentialConflicts (628-657): the lines found more than once in the
\* output of git log; nothing when git log fails.
checkPotentialConflicts(hist, ok) ==
    IF ~ok THEN {}
    ELSE LET lines == Split(TrimSpace(GitLogNameOnly(hist, Len(hist))), "\n")
             fileCount(f) == Cardinality({i \in DOMAIN lines : TrimSpace(lines[i]) = f})
         IN  {f \in {TrimSpace(lines[i]) : i \in DOMAIN lines} : f # "" /\ fileCount(f) > 1}

\* 212-240: the analysis, the nothing-to-do exit and the advisory warning.
\* A variant of the test that always finds work.
needsWorkAlways(cs) == TRUE

\* 218-225: whether some commit of the analysis needs splitting.
needsWork(cs) == \E i \in DOMAIN cs : cs[i].NeedsSplit

\* A variant that goes on with the commits it could analyse.
ExtractAnalyzeLenient ==
    /\ pc = "analyze"
    /\ \E cs \in {AnalyzeRange(head, targetFiles)} :
            /\ commits' = cs
            /\ err' = err
            /\ IF ~needsWork(cs)
               THEN /\ out' = Append(out, <<"nothing", "">>)
                    /\ pc' = "done"
               ELSE /\ out' = IF checkPotentialConflicts(head, logOk) # {}
                              THEN Append(out, <<"warning", "">>) ELSE out
                    /\ pc' = "backup"
    /\ UNCHANGED <<inspect, fromOk, showOk, logOk, cwd, plans, preview, sessions,
                   targetFiles, head, branch, index, worktree, rebase, todo,
                   unmerged, nextHash, backups, cur, originalHead, splits>>

\* A variant that takes a potential conflict for an error.
ExtractAnalyzeStrict ==
    /\ pc = "analyze"
    /\ IF ~analysisOk
       THEN /\ err' = "failed to analyze commits"
            /\ pc' = "done"
            /\ UNCHANGED <<commits, out>>
       ELSE \E cs \in {AnalyzeRange(head, targetFiles)} :
            /\ commits' = cs
            /\ IF ~needsWork(cs)
               THEN /\ out' = Append(out, <<"nothing", "">>)
                    /\ pc' = "done"
                    /\ err' = err
               ELSE IF checkPotentialConflicts(head, logOk) # {}
               THEN /\ out' = Append(out, <<"warning", "">>)
                    /\ pc' = "done"
                    /\ err' = "potential conflicts"
               ELSE /\ out' = out
                    /\ pc' = "backup"
                    /\ err' = err
    /\ UNCHANGED <<inspect, fromOk, showOk, logOk, cwd, plans, preview, sessions, targetFiles, head,
                   branch, index, worktree, rebase, todo, unmerged, nextHash,
                   backups, cur, originalHead, splits>>

ExtractAnalyze ==
    /\ pc = "analyze"
    /\ IF ~analysisOk
       THEN \* 213-216: the analysis fails
            /\ err' = "failed to analyze commits"
            /\ pc' = "done"
            /\ UNCHANGED <<commits, out>>
       ELSE \E cs \in {AnalyzeRange(head, targetFiles)} :
            /\ commits' = cs
            /\ err' = err
            /\ IF ~needsWork(cs)
               THEN /\ out' = Append(out, <<"nothing", "">>)
                    /\ pc' = "done"
               ELSE /\ out' = IF checkPotentialConflicts(head, logOk) # {}
                              THEN Append(out, <<"warning", "">>) ELSE out
                    /\ pc' = "backup"
    /\ UNCHANGED <<inspect, fromOk, showOk, logOk, cwd, plans, preview, sessions, targetFiles, head, branch, index,
                   worktree, rebase, todo, unmerged, nextHash, backups, cur,
                   originalHead, splits>>

\* 259-265: git branch --show-current prints nothing while a session that
\* was left in progress keeps HEAD detached; it prints the branch when the
\* branch was checked out again over the session left behind ("stale").
currentBranch == IF rebase \in {"none", "stale"} THEN BranchName ELSE ""

\* performRebase 258-274: the backup branch at the current tip.
CreateBackup ==
    /\ pc = "backup"
    /\ IF currentBranch = ""
       THEN \* 269-272: git branch -backup-<pid> is no valid command
            /\ err' = "failed to create backup branch"
            /\ pc' = "failed"
            /\ UNCHANGED <<backups, out, cur>>
       ELSE /\ backups' = backups \cup {[name |-> backupBranch(currentBranch),
                                         commits |-> branch]}
            /\ out' = Append(out, <<"backup", backupBranch(currentBranch)>>)
            /\ cur' = Len(commits)
            /\ pc' = "loop"
            /\ err' = err
    /\ UNCHANGED <<inspect, fromOk, showOk, logOk, cwd, plans, preview, sessions, targetFiles, head,
                   branch, index, worktree, rebase, todo, unmerged, nextHash,
                   commits, originalHead, splits>>

\* performRebase 278-285: the newest flagged commit at or below i (0: none).
NextFlagged(cs, i) ==
    LET flagged == {j \in 1..i : cs[j].NeedsSplit}
    IN  IF flagged = {} THEN 0 ELSE CHOOSE j \in flagged : \A k \in flagged : k <= j

\* git status --porcelain while a session is stopped: an unmerged path is
\* listed with the code UU, any other as outside a session.
RECURSIVE StatusInSession(_, _, _, _, _)
StatusInSession(hd, idxTree, wt, um, i) ==
    IF i > Len(PathOrder) THEN ""
    ELSE (IF PathOrder[i] \in um THEN "UU " \o QuotePath(PathOrder[i]) \o "\n"
          ELSE StatusLine(HeadTree(hd), idxTree, wt, PathOrder[i]))
         \o StatusInSession(hd, idxTree, wt, um, i + 1)

\* 596-614: the names of the lines whose code tells a conflict (kind
\* "conflicts") or, failing that, a staged change (kind "staged").
RECURSIVE StatusNames(_, _, _)
StatusNames(lines, i, kind) ==
    IF i > Len(lines) THEN <<>>
    ELSE LET line == lines[i]
             statusCode == SubSeq(line, 1, 2)
             filename == SubSeq(line, 4, Len(line))
             isConflict == Contains(statusCode, "U") \/ statusCode = "AA"
                           \/ statusCode = "DD"
             isStaged == ~isConflict /\ SubSeq(statusCode, 1, 1) \notin {" ", "?"}
         IN  (IF Len(line) >= 3 /\ ((kind = "conflicts" /\ isConflict)
                                   \/ (kind = "staged" /\ isStaged))
              THEN <<filename>> ELSE <<>>)
             \o StatusNames(lines, i + 1, kind)

\* checkRebaseConflicts 575-625: inProgress tells whether .git/rebase-merge
\* exists, statusOk whether git status ran, output is what it printed.
checkRebaseConflicts(inProgress, statusOk, output) ==
    IF ~inProgress THEN [isRebaseInProgress |-> FALSE, conflictMsg |-> ""]
    ELSE IF ~statusOk
    THEN [isRebaseInProgress |-> TRUE, conflictMsg |-> "Unable to check git status"]
    ELSE LET status == TrimSpace(output)
             lines == Split(status, "\n")
             conflicts == StatusNames(lines, 1, "conflicts")
             staged == StatusNames(lines, 1, "staged")
         IN  [isRebaseInProgress |-> TRUE,
              conflictMsg |->
                 IF status = "" THEN "Rebase in progress - ready for editing"
                 ELSE IF Len(conflicts) > 0
                 THEN "Merge conflicts in: " \o Join(conflicts, ", ")
                 ELSE IF Len(staged) > 0
                 THEN "Changes ready to commit: " \o Join(staged, ", ")
                 ELSE "Rebase in progress"]

\* 350: what the error of a session stopped at its start says to do.
ToResolve ==
    "\n\nTo resolve:\n1. Manually resolve conflicts in the affected files\n"
    \o "2. Run: git add <resolved-files>\n3. Run: git rebase --continue\n"
    \o "4. Or run: git rebase --abort to cancel"

\* git rebase -i with the sequence as its todo (343-347).  git refuses, and
\* changes nothing, when .git/rebase-merge is already there or when the
\* todo is empty; it fails too when it stops on a conflict or on a pick
\* that became empty, and leaves the session in progress then.
GitRebaseInteractive(sequence) ==
    IF rebase # "none" \/ sequence = <<>>
    THEN [failed |-> TRUE, head |-> head, branch |-> branch, index |-> index,
          worktree |-> worktree, rebase |-> rebase, todo |-> todo,
          unmerged |-> unmerged, next |-> nextHash]
    ELSE LET r == RunTodo(<<>>, ParseTodo(sequence, head), nextHash)
         IN  [failed |-> r.status \notin {"edit", "done"},
              head |-> r.head,
              branch |-> IF r.status = "done" THEN r.head ELSE branch,
              index |-> HeadTree(r.head),
              worktree |-> Checkout(worktree, HeadTree(head), HeadTree(r.head)),
              rebase |-> IF r.status = "done" THEN "none" ELSE r.status,
              todo |-> r.todo,
              unmerged |-> r.unmerged,
              next |-> r.next]

\* splitCommitUsingInteractiveRebase 291-365, up to the pause: the sequence
\* is written from the live history and git rebase -i runs it.
StartSession ==
    /\ pc = "loop"
    /\ NextFlagged(commits, cur) # 0
    /\ \E j \in {NextFlagged(commits, cur)} :
       \E sequence \in {RebaseSequence(head, commits[j].Hash)} :
       \E g \in {GitRebaseInteractive(sequence)} :
       \E chk \in {checkRebaseConflicts(g.rebase # "none", TRUE,
                       StatusInSession(g.head, g.index, g.worktree, g.unmerged, 1))} :
           /\ cur' = j
           /\ sessions' = sessions + 1
           /\ plans' = Append(plans, [sequence |-> sequence, hist |-> head,
                                      index |-> index, worktree |-> worktree,
                                      commit |-> commits[j].Hash])
           /\ head' = g.head
           /\ branch' = g.branch
           /\ index' = g.index
           /\ worktree' = g.worktree
           /\ rebase' = g.rebase
           /\ todo' = g.todo
           /\ unmerged' = g.unmerged
           /\ nextHash' = g.next
           /\ IF g.failed
              THEN \* 347-353
                   /\ pc' = "failed"
                   /\ err' = IF chk.isRebaseInProgress
                             THEN "rebase stopped due to conflicts:\n"
                                  \o chk.conflictMsg \o ToResolve
                             ELSE "failed to start interactive rebase"
              ELSE IF chk.isRebaseInProgress
              THEN \* 356-358
                   /\ pc' = "paused"
                   /\ err' = err
              ELSE \* 362-365
                   /\ pc' = "failed"
                   /\ err' = "rebase completed unexpectedly without stopping for editing"
    /\ UNCHANGED <<inspect, fromOk, showOk, logOk, cwd, preview, targetFiles, backups, commits,
                   originalHead, out, splits>>

\* git rebase --abort: back to the branch's tip, unless an untracked file
\* of the working directory is in the way.
AbortBlocked(idxTree, wt, target) ==
    \E p \in Paths : idxTree[p] = 0 /\ wt[p] # 0 /\ target[p] # 0 /\ p \notin Ignored

\* A variant that tells the session to continue whatever the split did.
SplitPausedThenContinue ==
    /\ pc = "paused"
    /\ \E r \in {splitCurrentCommit(head, worktree, commits[cur], targetFiles, nextHash)} :
           /\ nextHash' = r.next
           /\ head' = r.head
           /\ index' = r.index
           /\ splits' = IF r.err # "" THEN splits
                        ELSE Append(splits,
                                  [orig |-> head[Len(head)],
                                   info |-> commits[cur],
                                   msgs |-> r.msgs,
                                   first |-> r.head[Len(r.head) - 1],
                                   second |-> r.head[Len(r.head)]])
           /\ pc' = "continue"
    /\ UNCHANGED <<inspect, fromOk, showOk, logOk, cwd, plans, preview, sessions, targetFiles,
                   branch, unmerged, backups, commits, cur, originalHead, out,
                   worktree, rebase, todo, err>>

\* 356-365: the split at the pause, and the abort when it fails.  The
\* abort (359) is run without cmd.Dir: it acts on the repository of the
\* process's working directory.
SplitPaused ==
    /\ pc = "paused"
    /\ \E r \in {splitCurrentCommit(head, worktree, commits[cur], targetFiles, nextHash)} :
           /\ nextHash' = r.next
           /\ IF r.err = ""
              THEN /\ head' = r.head
                   /\ index' = r.index
                   /\ splits' = Append(splits,
                                  [orig |-> head[Len(head)],
                                   info |-> commits[cur],
                                   msgs |-> r.msgs,
                                   first |-> r.head[Len(r.head) - 1],
                                   second |-> r.head[Len(r.head)]])
                   /\ pc' = "continue"
                   /\ UNCHANGED <<worktree, rebase, todo, err>>
              ELSE /\ err' = r.err
                   /\ pc' = "failed"
                   /\ splits' = splits
                   /\ IF cwd # "repoDir" \/ AbortBlocked(r.index, worktree, HeadTree(branch))
                      THEN /\ head' = r.head
                           /\ index' = r.index
                           /\ UNCHANGED <<worktree, rebase, todo>>
                      ELSE /\ head' = branch
                           /\ index' = HeadTree(branch)
                           /\ worktree' = Checkout(worktree, r.index, HeadTree(branch))
                           /\ rebase' = "none"
                           /\ todo' = <<>>
    /\ UNCHANGED <<inspect, fromOk, showOk, logOk, cwd, plans, preview, sessions, targetFiles,
                   branch, unmerged, backups, commits, cur, originalHead, out>>

\* A variant that takes the session for completed whatever git rebase
\* --continue said.
ContinueRebaseIgnoringFailure ==
    /\ pc = "continue"
    /\ \E r \in {RunTodo(head, todo, nextHash)} :
           /\ head' = r.head
           /\ index' = HeadTree(r.head)
           /\ worktree' = Checkout(worktree, HeadTree(head), HeadTree(r.head))
           /\ todo' = r.todo
           /\ unmerged' = r.unmerged
           /\ nextHash' = r.next
           /\ rebase' = IF r.status = "done" THEN "none" ELSE r.status
           /\ branch' = IF r.status = "done" THEN r.head ELSE branch
           /\ cur' = cur - 1
           /\ pc' = "loop"
           /\ err' = err
    /\ UNCHANGED <<inspect, fromOk, showOk, logOk, cwd, plans, preview, sessions,
                   targetFiles, backups, commits, originalHead, out, splits>>

\* 367-374: git rebase --continue replays the rest; the loop goes on below
\* the commit just split.
ContinueRebase ==
    /\ pc = "continue"
    /\ \E r \in {RunTodo(head, todo, nextHash)} :
           /\ head' = r.head
           /\ index' = HeadTree(r.head)
           /\ worktree' = Checkout(worktree, HeadTree(head), HeadTree(r.head))
           /\ todo' = r.todo
           /\ unmerged' = r.unmerged
           /\ nextHash' = r.next
           /\ IF r.status = "done"
              THEN /\ rebase' = "none"
                   /\ branch' = r.head
                   /\ cur' = cur - 1
                   /\ pc' = "loop"
                   /\ err' = err
              ELSE /\ rebase' = r.status
                   /\ branch' = branch
                   /\ cur' = cur
                   /\ pc' = "failed"
                   /\ err' = "failed to continue rebase"
    /\ UNCHANGED <<inspect, fromOk, showOk, logOk, cwd, plans, preview, sessions, targetFiles, backups, commits, originalHead, out, splits>>

\* A variant that removes the backup branch of a failed run.
ExtractFailDroppingBackup ==
    /\ pc = "failed"
    /\ out' = out \o << <<"failed", "">>, <<"recover", originalHead>> >>
    /\ backups' = {}
    /\ pc' = "done"
    /\ UNCHANGED <<inspect, fromOk, showOk, logOk, cwd, plans, preview, sessions, targetFiles, head, branch, index,
                   worktree, rebase, todo, unmerged, nextHash, commits, cur,
                   originalHead, err, splits>>

\* A variant that goes back to the loop after a failed session.
ExtractFailRetrying ==
    /\ pc = "failed"
    /\ out' = out \o << <<"failed", "">>, <<"recover", originalHead>> >>
    /\ pc' = "loop"
    /\ UNCHANGED <<inspect, fromOk, showOk, logOk, cwd, plans, preview, sessions, targetFiles, head, branch, index, worktree, rebase, todo, unmerged,
                   nextHash, backups, commits, cur, originalHead, err, splits>>

\* 243-247: a failed performRebase: the recovery command again.
ExtractFail ==
    /\ pc = "failed"
    /\ out' = out \o << <<"failed", "">>, <<"recover", originalHead>> >>
    /\ pc' = "done"
    /\ UNCHANGED <<inspect, fromOk, showOk, logOk, cwd, plans, preview, sessions, targetFiles, head, branch, index, worktree, rebase, todo, unmerged,
                   nextHash, backups, commits, cur, originalHead, err, splits>>

\* 287, 249-253: no flagged commit is left: success.
ExtractSucceed ==
    /\ pc = "loop"
    /\ NextFlagged(commits, cur) = 0
    /\ out' = out \o << <<"success", "">>, <<"recover", originalHead>> >>
    /\ pc' = "done"
    /\ cur' = 0
    /\ UNCHANGED <<inspect, fromOk, showOk, logOk, cwd, plans, preview, sessions, targetFiles, head, branch, index, worktree, rebase, todo, unmerged,
                   nextHash, backups, commits, originalHead, err, splits>>

Next ==
    \/ DryRunCall
    \/ ExtractBegin
    \/ ExtractAnalyze
    \/ CreateBackup
    \/ StartSession
    \/ SplitPaused
    \/ ContinueRebase
    \/ ExtractFail
    \/ ExtractSucceed

Spec == Init /\ [][Next]_vars

(***************************************************************************)
(* The same program on the repositories and in the surroundings in which   *)
(* sessions fail: a commit without message, a target that is only a part   *)
(* of a file's name, a directory named without its separator, an ignored   *)
(* file, a session left in progress, a working directory that is not the   *)
(* repository, a git log that fails.                                       *)
(***************************************************************************)
KindsOfFailures ==
    { [w |-> {"o"}, d |-> {}, msg |-> "Other\n", an |-> "Bob", ae |-> "bob@x"],
      [w |-> {"t", "o", "g"}, d |-> {}, msg |-> "Add log\n", an |-> "Bob", ae |-> "bob@x"],
      [w |-> {"a b", "o"}, d |-> {}, msg |-> "Space\n", an |-> "Bob", ae |-> "bob@x"],
      [w |-> {"d/x", "t"}, d |-> {}, msg |-> "", an |-> "Alice", ae |-> "alice@x"] }

TargetSpecsOfFailures == { <<"t">>, <<"d", "t">>, <<"a">> }

InitOfFailures ==
    /\ inspect = NoInspect
    /\ \E ok \in {<<TRUE, TRUE>>, <<TRUE, FALSE>>, <<FALSE, TRUE>>} :
          fromOk = ok[1] /\ showOk = ok[2]
    /\ logOk \in BOOLEAN
    /\ cwd \in {"repoDir", "elsewhere"}
    /\ plans = <<>>
    /\ preview = [called |-> FALSE, text |-> "", err |-> ""]
    /\ sessions = 0
    /\ targetFiles \in TargetSpecsOfFailures
    /\ \E n \in 1..MaxCommits : \E ks \in [1..n -> KindsOfFailures] :
          head = BuildHistory(ks, 1, <<>>)
    /\ branch = head
    /\ index = HeadTree(head)
    /\ worktree = HeadTree(head)
    /\ rebase \in {"none", "edit", "stale"}
    /\ todo = <<>>
    /\ unmerged = {}
    /\ nextHash = Len(head) + 1
    /\ backups = {}
    /\ pc = "start"
    /\ commits = <<>>
    /\ cur = 0
    /\ originalHead = ""
    /\ out = <<>>
    /\ err = ""
    /\ splits = <<>>

SpecOfFailures == InitOfFailures /\ [][Next]_vars

\* The positions of a call of Extract.
PcValues == {"start", "analyze", "backup", "loop", "paused", "continue", "failed", "done"}

\* A call that has not returned goes on to its next position: Extract is
\* sequential code, each of its steps a statement or a git command it waits
\* for, and at every position short of the return one of the steps of Next
\* is possible.
Proceed == pc # "done" /\ pc' \in PcValues

SpecOfTermination == InitOfFailures /\ [][Next]_vars /\ WF_pc(Proceed)

(***************************************************************************)
(* checkRebaseConflicts on its own (rebase.go 575-625), on what git status *)
(* can print for three paths, with and without a session in progress.      *)
(***************************************************************************)
\* The paths git status reports on, in git's order.
InspectPaths == <<"a b", "g", "t">>

\* The two-letter codes of git status --porcelain taken up here; "" for a
\* path with nothing to report.
StatusCodes == {"", "UU", "AA", "DD", "DU", "M ", " M", "A ", "MM", "??"}

\* The lines of git status --porcelain for the codes of the paths from i
\* on: the untracked paths (untracked = TRUE) or the others.
RECURSIVE StatusOfCodes(_, _, _)
StatusOfCodes(codes, i, untracked) ==
    IF i > Len(codes) THEN ""
    ELSE (IF codes[i] # "" /\ ((codes[i] = "??") = untracked)
          THEN codes[i] \o " " \o QuotePath(InspectPaths[i]) \o "\n" ELSE "")
         \o StatusOfCodes(codes, i + 1, untracked)

\* git status --porcelain lists the untracked paths last.
GitStatusPorcelain(codes) ==
    StatusOfCodes(codes, 1, FALSE) \o StatusOfCodes(codes, 1, TRUE)

InitOfInspect ==
    /\ \E inProgress \in BOOLEAN, statusOk \in BOOLEAN :
       \E codes \in [1..Len(InspectPaths) -> StatusCodes] :
          /\ inspect = [NoInspect EXCEPT !.inProgress = inProgress,
                                         !.statusOk = statusOk,
                                         !.codes = codes]
          /\ rebase = IF inProgress THEN "stale" ELSE "none"
          /\ unmerged = {InspectPaths[i] : i \in {k \in 1..Len(InspectPaths) :
                             codes[k] \in {"UU", "AA", "DD", "DU"}}}
    /\ fromOk = TRUE
    /\ showOk = TRUE
    /\ logOk = TRUE
    /\ cwd = "repoDir"
    /\ plans = <<>>
    /\ preview = [called |-> FALSE, text |-> "", err |-> ""]
    /\ sessions = 0
    /\ targetFiles = <<"t">>
    /\ head = <<>>
    /\ branch = <<>>
    /\ index = BaseTree
    /\ worktree = BaseTree
    /\ todo = <<>>
    /\ nextHash = 1
    /\ backups = {}
    /\ pc = "start"
    /\ commits = <<>>
    /\ cur = 0
    /\ originalHead = ""
    /\ out = <<>>
    /\ err = ""
    /\ splits = <<>>

\* One call of checkRebaseConflicts.
InspectCall ==
    /\ ~inspect.called
    /\ \E r \in {checkRebaseConflicts(inspect.inProgress, inspect.statusOk,
                                     GitStatusPorcelain(inspect.codes))} :
          inspect' = [inspect EXCEPT !.called = TRUE,
                                     !.isRebaseInProgress = r.isRebaseInProgress,
                                     !.conflictMsg = r.conflictMsg]
    /\ UNCHANGED <<fromOk, showOk, logOk, cwd, plans, preview, sessions, targetFiles,
                   head, branch, index, worktree, rebase, todo, unmerged, nextHash,
                   backups, pc, commits, cur, originalHead, out, err, splits>>

NextOfInspect == InspectCall

SpecOfInspect == InitOfInspect /\ [][NextOfInspect]_vars

(***************************************************************************)
(* Properties.                                                             *)
(***************************************************************************)
\* Extract returned nil after at least one split.
Succeeded == pc = "done" /\ err = "" /\ splits # <<>>

\* The range as it was when the run began: the backup branch keeps it.
Original == (CHOOSE b \in backups : TRUE).commits

\* The analysis has run and the range is still as analysed.
Analysed == pc = "backup" \/ (pc = "done" /\ commits # <<>> /\ backups = {})

HasTarget(c) == \E p \in ChangedPaths(c) : isTargetFile(p, targetFiles)

HasOther(c) == \E p \in ChangedPaths(c) : ~isTargetFile(p, targetFiles)

\* C1: every analysed change-set has NeedsSplit exactly when its changed
\* paths hold a path matching the target specification and one not
\* matching it.
C1_NeedsSplitIffMixed ==
    Analysed =>
        \A i \in DOMAIN commits :
            commits[i].NeedsSplit <=> (HasTarget(head[i]) /\ HasOther(head[i]))

\* C2: the two change-sets of a split partition the changed paths of the
\* change-set split: the first has exactly the paths not matching the
\* target specification, the second exactly the matching ones.
C2_SplitPartitionsPaths ==
    \A k \in DOMAIN splits :
        LET O == ChangedPaths(splits[k].orig)
            A == ChangedPaths(splits[k].first)
            B == ChangedPaths(splits[k].second)
        IN  /\ A \cap B = {}
            /\ A \cup B = O
            /\ A = {p \in O : ~isTargetFile(p, targetFiles)}
            /\ B = {p \in O : isTargetFile(p, targetFiles)}

\* C3: after a successful Extract the tree at the new tip is the tree at
\* the original tip.
C3_TipContentPreserved ==
    Succeeded => HeadTree(head) = HeadTree(Original)

\* The same change: the same changed paths with the same new content, the
\* same author and the same message.
SameChange(c, o) ==
    /\ ChangedPaths(c) = ChangedPaths(o)
    /\ \A p \in ChangedPaths(o) : c.tree[p] = o.tree[p]
    /\ c.an = o.an /\ c.ae = o.ae
    /\ c.msg = o.msg

\* C4: after a successful Extract every change-set that was not flagged is
\* in the rewritten range exactly once, with the same change, author and
\* message.
C4_UnflaggedUntouched ==
    Succeeded =>
        \A i \in DOMAIN commits :
            ~commits[i].NeedsSplit =>
                Cardinality({j \in DOMAIN head : SameChange(head[j], Original[i])}) = 1

\* C5: after a successful Extract over n change-sets of which k are flagged
\* the range holds n + k change-sets.
C5_CountIsNPlusK ==
    Succeeded =>
        Len(head) = Len(commits)
                    + Cardinality({i \in DOMAIN commits : commits[i].NeedsSplit})

\* The change-set of the original range a commit comes from: commit i of the
\* original range wrote content i.
Origin(c) == CHOOSE v \in {c.tree[p] : p \in ChangedPaths(c)} : v # 0

\* C6: in the rewritten history the change-sets follow the order of the
\* ones they come from, and the two halves of a split change-set are next
\* to each other, the retained one first.
C6_HalvesInPlaceAndOrderKept ==
    Succeeded =>
        /\ \A j \in 1..(Len(head) - 1) : Origin(head[j]) <= Origin(head[j + 1])
        /\ \A k \in DOMAIN splits :
              \E j \in 1..(Len(head) - 1) :
                  /\ Origin(head[j]) = splits[k].orig.hash
                  /\ Origin(head[j + 1]) = splits[k].orig.hash
                  /\ head[j].msg = Cleanup(splits[k].msgs[1])
                  /\ head[j + 1].msg = Cleanup(splits[k].msgs[2])
                  /\ ChangedPaths(head[j]) = ChangedPaths(splits[k].first)
                  /\ ChangedPaths(head[j + 1]) = ChangedPaths(splits[k].second)

\* A run that split two change-sets, with an unflagged one after them.
C6_Witness ==
    /\ Succeeded
    /\ Len(splits) = 2
    /\ ~commits[Len(commits)].NeedsSplit

\* C7: after a successful Extract the analysis of the new range flags no
\* change-set.
C7_ReanalysisFlagsNothing ==
    Succeeded =>
        \A i \in DOMAIN head : ~analyzeCommit(head[i], targetFiles).NeedsSplit

\* C8: both change-sets of a split have the author (name and address) of
\* the change-set split, as the analysis recorded it, whoever runs the tool;
\* they still have it when the run is over.
C8_HalvesKeepAuthor ==
    /\ \A k \in DOMAIN splits :
          /\ splits[k].info.Author = splits[k].orig.an \o " <" \o splits[k].orig.ae \o ">"
          /\ splits[k].first.an = splits[k].orig.an
          /\ splits[k].first.ae = splits[k].orig.ae
          /\ splits[k].second.an = splits[k].orig.an
          /\ splits[k].second.ae = splits[k].orig.ae
    /\ Succeeded =>
          \A j \in DOMAIN head :
              /\ head[j].an = Original[Origin(head[j])].an
              /\ head[j].ae = Original[Origin(head[j])].ae

\* A finished run that split a change-set whose author is not the runner.
C8_Witness ==
    /\ Succeeded
    /\ splits[1].orig.an # RunnerName
    /\ splits[1].first.cn = RunnerName

\* C9: both change-sets of a split have the author date of the change-set
\* split.
C9_HalvesKeepDate ==
    \A k \in DOMAIN splits :
        /\ splits[k].first.date = splits[k].orig.date
        /\ splits[k].second.date = splits[k].orig.date

\* C10: the messages generated for a split are, for one target path p, the
\* original followed by the notice naming p, and p, a colon and the
\* original; for any other number of target paths the notice and the prefix
\* say "target files".  The original is embedded as it is.
C10_SplitMessages ==
    \A k \in DOMAIN splits :
        LET original == splits[k].info.Message
        IN  IF Len(targetFiles) = 1
            THEN /\ splits[k].msgs[1] = original \o "\n\nChanges to " \o targetFiles[1]
                                          \o " split into a separate commit"
                 /\ splits[k].msgs[2] = targetFiles[1] \o ": " \o original
            ELSE /\ splits[k].msgs[1] = original
                        \o "\n\nChanges to target files split into a separate commit"
                 /\ splits[k].msgs[2] = "target files: " \o original

\* A split of a change-set with a message of several lines, for one target.
C10_Witness ==
    /\ splits # <<>>
    /\ Len(targetFiles) = 1
    /\ splits[1].info.Message = "Fix bug\n\nBody text"
    /\ splits[1].msgs[2] = "t: Fix bug\n\nBody text"

\* A DryRun was made before the run and returned its text.
Previewed == preview.called /\ preview.err = ""

\* C11: the messages a split uses are the ones GenerateSplitMessages gives
\* for the analysed message and the targets when it is called again after
\* the run's repository operations, and they are the ones that the entry of
\* the commit shows in the text of a DryRun made before the run.
C11_MessagesAsPreviewed ==
    \A k \in DOMAIN splits :
        /\ splits[k].msgs = GenerateSplitMessages(splits[k].info.Message, targetFiles)
        /\ Previewed =>
              Contains(preview.text,
                  "Commit " \o SubSeq(splits[k].info.Hash, 1, 7) \o ": \""
                  \o splits[k].info.Message \o "\"\n"
                  \o "|- Split into: \"" \o splits[k].msgs[1] \o "\"\n"
                  \o "+- Split into: \"" \o splits[k].msgs[2] \o "\"\n\n")

\* A previewed run that split two commits, one with a message of several
\* lines.
C11_Witness ==
    /\ Previewed
    /\ Succeeded
    /\ Len(splits) = 2
    /\ \E k \in DOMAIN splits : splits[k].info.Message = "Fix bug\n\nBody text"

\* The segments of a path or pattern: the text between the separators.
Segments(path) == Split(path, "/")

\* A path lies under a directory pattern: the pattern ends with the
\* separator and its segments are the first segments of the path.
LiesUnder(path, pattern) ==
    /\ HasSuffix(pattern, "/")
    /\ LET dir == Segments(SubSeq(pattern, 1, Len(pattern) - 1))
       IN  /\ Len(Segments(path)) > Len(dir)
           /\ SubSeq(Segments(path), 1, Len(dir)) = dir

\* C12: a path matches the targets exactly when it equals a pattern or
\* lies under a pattern that ends with the separator; "lib/" matches
\* "lib/x.go" and not "libx.go", and "lib" matches neither.
C12_ExactOrUnderDirectory ==
    /\ \A p \in Paths :
          isTargetFile(p, targetFiles)
            <=> \E i \in DOMAIN targetFiles :
                   p = targetFiles[i] \/ LiesUnder(p, targetFiles[i])
    /\ \A i \in DOMAIN commits : \A j \in DOMAIN commits[i].Files :
          isTargetFile(commits[i].Files[j], targetFiles)
            <=> \E n \in DOMAIN targetFiles :
                   \/ commits[i].Files[j] = targetFiles[n]
                   \/ LiesUnder(commits[i].Files[j], targetFiles[n])
    /\ isTargetFile("lib/x.go", <<"lib/">>)
    /\ ~isTargetFile("libx.go", <<"lib/">>)
    /\ ~isTargetFile("lib/x.go", <<"lib">>)
    /\ ~isTargetFile("libx.go", <<"lib">>)

\* The analysis of a commit that changes a file under the directory pattern
\* and a file whose name only begins like the directory.
C12_Witness ==
    /\ targetFiles = <<"d/", "t">>
    /\ \E i \in DOMAIN commits :
          /\ commits[i].Files = <<"d/x", "dx">>
          /\ commits[i].NeedsSplit

\* The entries C13 expects for the first n commits of a range, cs their
\* analysis.
RECURSIVE PreviewEntries(_, _, _)
PreviewEntries(hist, cs, n) ==
    IF n = 0 THEN ""
    ELSE PreviewEntries(hist, cs, n - 1)
         \o (IF cs[n].NeedsSplit
             THEN "Commit " \o SubSeq(HashText(hist[n].hash), 1, 7) \o ": \"" \o cs[n].Message \o "\"\n"
                  \o "|- Split into: \""
                  \o GenerateSplitMessages(cs[n].Message, targetFiles)[1] \o "\"\n"
                  \o "+- Split into: \""
                  \o GenerateSplitMessages(cs[n].Message, targetFiles)[2] \o "\"\n\n"
             ELSE "")

\* C13: the text of DryRun is the line "Would split k out of n commits:",
\* n the number of commits of the range and k the number flagged, then one
\* entry for each flagged commit and none for the others, oldest first, an
\* entry giving the 7 characters of the short name, the message and the two
\* messages of GenerateSplitMessages.
C13_DryRunText ==
    (Previewed /\ pc = "start") =>
        LET cs == AnalyzeRange(head, targetFiles)
            k == Cardinality({i \in DOMAIN cs : cs[i].NeedsSplit})
        IN  /\ preview.text = "Would split " \o ToString(k) \o " out of "
                                \o ToString(Len(head)) \o " commits:\n\n"
                                \o PreviewEntries(head, cs, Len(cs))
            /\ \A i \in DOMAIN head : Len(SubSeq(HashText(head[i].hash), 1, 7)) = 7

\* The text for a range of three commits of which the first and the last
\* are flagged.
C13_Witness ==
    /\ Previewed
    /\ pc = "start"
    /\ Len(head) = 3
    /\ HasPrefix(preview.text, "Would split 2 out of 3 commits:\n\nCommit c0ff001: \"")
    /\ Contains(preview.text, "\"\n\nCommit c0ff003: \"")

\* What a mutation changes: the tip and the branch, the index, the working
\* directory, the session, the objects and the backup branches.
repository == <<head, branch, index, worktree, rebase, todo, unmerged, nextHash, backups>>

\* C14: a DryRun, whether it returns its text or the error of the analysis,
\* leaves the tip, the branches (no backup branch appears), the working
\* directory, the index and the session as they were.
C14_DryRunMutatesNothing ==
    [][preview' # preview => UNCHANGED repository]_vars

\* A DryRun that returned its text on a working directory with a staged
\* change, which is still staged.
C14_Witness ==
    /\ Previewed
    /\ pc = "start"
    /\ index # HeadTree(head)
    /\ backups = {}
    /\ rebase = "none"

\* A path has a pending change: staged, or changed in the working
\* directory and not an ignored file that git does not track.
Pending(p) ==
    \/ index[p] # HeadTree(head)[p]
    \/ worktree[p] # index[p] /\ ~(index[p] = 0 /\ p \in Ignored)

\* C15: called with a pending change, Extract returns the precondition
\* error, which names the paths with a pending change, and changes nothing:
\* no backup branch, no session, the tip, the index and the working
\* directory as they were.
C15_DirtyIsRefused ==
    [][(pc = "start" /\ pc' # "start" /\ \E p \in Paths : Pending(p)) =>
          /\ pc' = "done"
          /\ HasPrefix(err', "working directory is not clean")
          /\ \A p \in Paths : Pending(p) => Contains(err', p)
          /\ UNCHANGED <<repository, sessions, out>>]_vars

\* Extract has refused a working directory with a file git does not track.
C15_Witness ==
    /\ pc = "done"
    /\ HasPrefix(err, "working directory is not clean")
    /\ Contains(err, "?? dx")
    /\ backups = {}
    /\ sessions = 0

\* C16: when the analysis flags no commit of the range, Extract prints the
\* notice that nothing needs splitting and returns nil without a mutation:
\* no backup branch, no session, the tip as it was.
C16_NothingToDo ==
    [][(/\ pc = "analyze"
        /\ pc' # "analyze"
        /\ fromOk
        /\ \A i \in DOMAIN head : ~analyzeCommit(head[i], targetFiles).NeedsSplit) =>
          /\ pc' = "done"
          /\ err' = ""
          /\ out' = Append(out, <<"nothing", "">>)
          /\ UNCHANGED <<repository, sessions>>]_vars

\* Extract has returned nil for a range of two commits, none flagged.
C16_Witness ==
    /\ pc = "done"
    /\ err = ""
    /\ Len(commits) = 2
    /\ \A i \in DOMAIN commits : ~commits[i].NeedsSplit
    /\ out[Len(out)] = <<"nothing", "">>
    /\ backups = {}
    /\ sessions = 0

\* C17: in a run that passed the clean check, the recovery command with
\* the name of the tip as it was before the run has been printed when the
\* first mutation, and every later one, is made.
C17_RecoveryBeforeMutation ==
    [][repository' # repository =>
          /\ out # <<>>
          /\ out[1] = <<"recover", originalHead>>
          /\ originalHead =
                HashText(HeadHash(IF backups = {} THEN branch ELSE Original))]_vars

\* A session has stopped at the commit to split; the recovery command came
\* first.
C17_Witness ==
    /\ pc = "paused"
    /\ out[1] = <<"recover", HashText(HeadHash(Original))>>
    /\ sessions = 1

\* C18: a run that captured the tip prints the recovery command again when
\* it ends, on success and on every failure: it is the last thing printed.
C18_RecoveryAtEveryEnd ==
    (pc = "done" /\ originalHead # "") =>
        /\ Len(out) >= 2
        /\ out[Len(out)] = <<"recover", originalHead>>

\* C19: from the first session of a run until Extract has returned there
\* is a backup branch named <branch>-backup-<process id> at the tip
\* captured before the run.
C19_BackupKept ==
    sessions >= 1 =>
        \E b \in backups :
            /\ b.name = BranchName \o "-backup-" \o ToString(Getpid)
            /\ b.name = "main-backup-4242"
            /\ HashText(HeadHash(b.commits)) = originalHead

\* Extract has returned an error after a session; the backup branch is
\* there.
C19_Witness ==
    /\ pc = "done"
    /\ err # ""
    /\ sessions >= 1
    /\ backups # {}
    /\ head # Original

\* C20: a run starts one session, however many commits are flagged.
C20_OneSession == sessions <= 1

\* The identity an instruction of a session's list names.
InstructionHash(line) == Fields(line)[2]

\* The instruction of a session's list: edit or pick.
InstructionCmd(line) == Fields(line)[1]

\* C21: the list of instructions is derived once from the commits of the
\* initial analysis and never rebuilt from the history as rewritten so far:
\* every instruction of every session names a commit of the analysis, and
\* every session reads the history the analysis read.
C21_PlanFixed ==
    \A k \in 1..Len(plans) :
        /\ plans[k].hist = Original
        /\ \A i \in 1..Len(plans[k].sequence) :
               \E c \in 1..Len(commits) :
                   InstructionHash(plans[k].sequence[i]) = ShortHash(commits[c].Hash)

\* The splitter's own errors (splitCurrentCommit 378-489).
SplitErrors ==
    { "failed to create first split commit",
      "no target files were successfully staged for second commit",
      "failed to create second split commit" }

\* C22: a session goes NotStarted, Running, paused for the edit and Running
\* again, then Completed, Blocked or Aborted.  A session starts where none
\* is in progress (where one was left behind git refuses and nothing
\* changes); the splitter acts only at the pause of a session; the
\* session is told to continue only from the pause and only after a split
\* that succeeded; a session completes only with every instruction
\* consumed; once it is blocked or aborted nothing touches it again.
C22_SessionStateMachine ==
    [][ /\ (sessions' # sessions) =>
               /\ pc = "loop" /\ sessions' = sessions + 1
               /\ \/ rebase = "none"
                  \/ /\ pc' = "failed"
                     /\ UNCHANGED <<head, branch, index, worktree, rebase, todo,
                                    unmerged, nextHash>>
        /\ (pc' = "paused") => (rebase' = "edit" /\ sessions' = sessions + 1)
        /\ (splits' # splits \/ err' \in SplitErrors \ {err}) =>
               (pc = "paused" /\ rebase = "edit")
        /\ (pc' = "continue") =>
               (pc = "paused" /\ Len(splits') = Len(splits) + 1 /\ err' = "")
        /\ (pc = "continue") =>
               \/ pc' = "loop" /\ rebase' = "none" /\ todo' = <<>> /\ unmerged' = {}
               \/ pc' = "failed" /\ rebase' \in {"conflict", "empty"}
        /\ (pc \in {"failed", "done"}) =>
               /\ pc' = "done"
               /\ UNCHANGED <<head, branch, index, worktree, rebase, todo,
                              unmerged, nextHash, backups, sessions, splits, plans>>
      ]_vars

\* C22's case: a first session was paused, split and completed, and the
\* second one ended otherwise.
C22_Witness ==
    /\ pc = "done"
    /\ sessions = 2
    /\ Len(splits) = 1
    /\ err # ""

\* C23: a run whose session stopped on content conflicts, at its start or
\* on continuation, ends with the content-conflict error, which lists the
\* paths in conflict and says how to continue or abort by hand.
C23_ConflictReported ==
    (pc \in {"failed", "done"} /\ rebase = "conflict") =>
        /\ HasPrefix(err, "rebase stopped due to conflicts")
        /\ \A p \in unmerged : Contains(err, p)
        /\ Contains(err, "git rebase --continue")
        /\ Contains(err, "git rebase --abort")

\* C24: when the splitter has failed at a pause, the session is aborted in
\* the repository being rewritten before the error is returned: no session
\* is in progress there, and tip, index and working area are as they were
\* when the session started.
C24_AbortRestores ==
    (pc \in {"failed", "done"} /\ err \in SplitErrors) =>
        /\ rebase = "none"
        /\ head = plans[Len(plans)].hist
        /\ index = plans[Len(plans)].index
        /\ worktree = plans[Len(plans)].worktree

\* At a pause: no file, in the working tree or in the parent of the commit
\* being split, lies under any target as git reads it, so that neither
\* git add nor git add --force can stage anything for the second half.
NoTargetStageable ==
    \A k \in 1..Len(targetFiles) : \A p \in Paths :
        PathspecMatch(p, targetFiles[k]) =>
            /\ worktree[p] = 0
            /\ HeadTree(SubSeq(head, 1, Len(head) - 1))[p] = 0

\* C25: when no target is staged for the second half of a split, the split
\* fails with the error that says so and no second commit is made: at most
\* the first half has been committed, and no split is recorded.
C25_NothingStagedFails ==
    [][ (pc = "paused" /\ NoTargetStageable) =>
            /\ pc' = "failed"
            /\ splits' = splits
            /\ nextHash' <= nextHash + 1
            /\ (nextHash' = nextHash + 1) =>
                   err' = "no target files were successfully staged for second commit"
      ]_vars

\* C25's case: a run ended by a split whose second half had nothing staged.
C25_Witness ==
    /\ pc = "done"
    /\ err = "no target files were successfully staged for second commit"
    /\ splits = <<>>

\* The paths that more than one commit of the history changes.
ChangedMoreThanOnce(hist) ==
    {p \in Paths : Cardinality({i \in 1..Len(hist) : p \in ChangedPaths(hist[i])}) > 1}

\* C26: checkPotentialConflicts returns exactly the paths that more than
\* one commit of from..HEAD changes, targets or not; a path that a single
\* commit changes is not returned.
C26_PathsChangedMoreThanOnce ==
    (pc = "analyze" /\ fromOk) =>
        checkPotentialConflicts(head, TRUE) = ChangedMoreThanOnce(head)

\* C26's case: a path that is no target is returned, and a target that one
\* commit changes is not.
C26_Witness ==
    /\ pc = "analyze" /\ fromOk
    /\ \E p \in checkPotentialConflicts(head, TRUE) : ~isTargetFile(p, targetFiles)
    /\ \E p \in Paths \ checkPotentialConflicts(head, TRUE) :
           /\ isTargetFile(p, targetFiles)
           /\ \E i \in 1..Len(head) : p \in ChangedPaths(head[i])

\* How many times the warning of potential conflicts was printed.
Warnings(o) == Cardinality({i \in DOMAIN o : o[i][1] = "warning"})

\* C27: the heuristic only advises.  The step that evaluates it goes on to
\* the backup with the analysed commits whatever it found, touching nothing
\* but the output; its warning is printed at most once, and only there,
\* before any backup or session.
C27_HeuristicAdvisory ==
    [][ /\ (pc = "analyze" /\ analysisOk /\ needsWork(AnalyzeRange(head, targetFiles))) =>
               /\ pc' = "backup"
               /\ err' = err
               /\ commits' = AnalyzeRange(head, targetFiles)
               /\ out' \in {out, Append(out, <<"warning", "">>)}
               /\ UNCHANGED <<head, branch, index, worktree, rebase, todo, unmerged,
                              nextHash, backups, sessions, splits, plans>>
        /\ (Warnings(out') # Warnings(out)) =>
               /\ pc = "analyze" /\ backups = {} /\ sessions = 0
               /\ Warnings(out') = 1
               /\ checkPotentialConflicts(head, logOk) # {}
      ]_vars

\* C27's case: git log failed inside the heuristic on a history with paths
\* changed more than once, nothing was printed, and the run split its
\* commits as usual.
C27_Witness ==
    /\ pc = "done" /\ err = "" /\ splits # <<>>
    /\ ~logOk
    /\ ChangedMoreThanOnce(Original) # {}
    /\ Warnings(out) = 0

\* C28: the instruction list of a session has one instruction for each
\* commit of the range, oldest first, none left out and none twice; the
\* instruction of the commit the session is to split is edit, and every
\* other one is pick.
C28_OneInstructionPerCommit ==
    \A k \in 1..Len(plans) :
        LET sequence == plans[k].sequence
            hist == plans[k].hist
        IN  /\ Len(sequence) = Len(hist)
            /\ \A i \in 1..Len(hist) :
                   /\ InstructionHash(sequence[i]) = ShortHash(HashText(hist[i].hash))
                   /\ InstructionCmd(sequence[i]) =
                          (IF HashText(hist[i].hash) = plans[k].commit THEN "edit" ELSE "pick")

\* C29: the splitter runs only at the pause of a session that this run
\* started where none was in progress, stopped by its edit instruction and
\* by no conflict, with the flagged commit it was given as the tip: the
\* commit of the analysis itself, with its content change.
C29_SplitOnlyAtItsCommit ==
    [][ /\ (pc' = "paused") =>
               /\ pc = "loop" /\ rebase = "none"
               /\ rebase' = "edit" /\ unmerged' = {}
        /\ (pc = "paused") =>
               /\ commits[cur].NeedsSplit
               /\ plans[Len(plans)].commit = commits[cur].Hash
               /\ HashText(head[Len(head)].hash) = commits[cur].Hash
               /\ head[Len(head)] = Original[cur]
               /\ ChangedPaths(head[Len(head)]) = ChangedPaths(Original[cur])
        /\ (splits' # splits) =>
               /\ pc = "paused"
               /\ splits'[Len(splits')].orig = Original[cur]
      ]_vars

\* C29's case: the second session of a run is paused at a flagged commit
\* that lies under the rewritten ones.
C29_Witness ==
    /\ pc = "paused"
    /\ sessions = 2
    /\ cur < Len(Original)
    /\ Len(splits) = 1

\* The place of an analysed commit in the list of the analysis.
AnalysedIndex(hash) == CHOOSE c \in 1..Len(commits) : commits[c].Hash = hash

\* C30: the flagged commits are processed newest first; at the start of
\* each session the commit to split is in the history under the name the
\* analysis gave it, its instruction is edit and the session pauses
\* there: no run ends because a session did not pause or could not start.
C30_FlaggedPausesUnderItsIdentity ==
    /\ \A k \in 1..Len(plans) :
           /\ \E i \in 1..Len(plans[k].hist) :
                  HashText(plans[k].hist[i].hash) = plans[k].commit
           /\ \E i \in 1..Len(plans[k].sequence) :
                  /\ InstructionCmd(plans[k].sequence[i]) = "edit"
                  /\ InstructionHash(plans[k].sequence[i]) = ShortHash(plans[k].commit)
           /\ (k > 1) => AnalysedIndex(plans[k].commit) < AnalysedIndex(plans[k - 1].commit)
    /\ err # "rebase completed unexpectedly without stopping for editing"
    /\ err # "failed to start interactive rebase"

\* The paths, as git status names them, whose code is one of those kept by
\* the test: from path i on.
RECURSIVE PathsWithCode(_, _, _)
PathsWithCode(codes, i, kept) ==
    IF i > Len(codes) THEN <<>>
    ELSE (IF codes[i] \in kept THEN <<QuotePath(InspectPaths[i])>> ELSE <<>>)
         \o PathsWithCode(codes, i + 1, kept)

\* C31: checkRebaseConflicts says "not in a session" exactly when
\* .git/rebase-merge is absent; in a session it lists exactly the unmerged
\* paths when there are some, otherwise exactly the paths with a change in
\* the index, each by its whole name, otherwise it reports a clean pause.
C31_InspectClassifies ==
    (inspect.called /\ inspect.statusOk) =>
        /\ inspect.isRebaseInProgress = inspect.inProgress
        /\ ~inspect.inProgress => inspect.conflictMsg = ""
        /\ inspect.inProgress =>
              LET conflicts == PathsWithCode(inspect.codes, 1, {"UU", "AA", "DD", "DU"})
                  staged == PathsWithCode(inspect.codes, 1, {"M ", "A ", "MM"})
              IN  inspect.conflictMsg =
                     IF Len(conflicts) > 0
                     THEN "Merge conflicts in: " \o Join(conflicts, ", ")
                     ELSE IF Len(staged) > 0
                     THEN "Changes ready to commit: " \o Join(staged, ", ")
                     ELSE IF \A i \in 1..Len(inspect.codes) : inspect.codes[i] = ""
                     THEN "Rebase in progress - ready for editing"
                     ELSE "Rebase in progress"

\* C32: "rebase stopped due to conflicts" is reported only when the session
\* of the run stopped with a path unmerged; git rebase failing to start for
\* another reason, a session left in progress before the run for one, is
\* not reported so.
C32_ConflictOnlyWhenUnmerged ==
    HasPrefix(err, "rebase stopped due to conflicts") =>
        /\ unmerged # {}
        /\ rebase = "conflict"

\* Whether git finds a path under the target among the paths the tip
\* changes.
MatchesPending(target) ==
    \E p \in ChangedPaths(head[Len(head)]) : PathspecMatch(p, target)

\* The result of a split as far as the repository goes.
SplitOutcome(r) ==
    [err |-> r.err, index |-> r.index, tree |-> HeadTree(r.head), len |-> Len(r.head)]

\* C33: unstaging is best effort for each target: a target that matches
\* nothing of the pending changes is passed over, the split goes as it
\* would without that target, and the first commit of every split changes
\* no path that lies under a target.
C33_UnstageBestEffort ==
    /\ \A n \in 1..Len(splits) : \A p \in ChangedPaths(splits[n].first) :
           \A k \in 1..Len(targetFiles) : ~PathspecMatch(p, targetFiles[k])
    /\ (pc = "paused") =>
           SplitOutcome(splitCurrentCommit(head, worktree, commits[cur], targetFiles,
                                           nextHash))
           = SplitOutcome(splitCurrentCommit(head, worktree, commits[cur],
                              SelectSeq(targetFiles, MatchesPending), nextHash))

\* C33's case: a split was made with a target that matched nothing of the
\* commit and another that matched.
C33_Witness ==
    /\ splits # <<>>
    /\ Len(targetFiles) = 2
    /\ \E k \in 1..2 : \A p \in ChangedPaths(splits[1].orig) :
           ~PathspecMatch(p, targetFiles[k])
    /\ \E p \in ChangedPaths(splits[1].second) : PathspecMatch(p, targetFiles[2])

\* C34: when a lookup of the analysis fails, AnalyzeRange returns an error
\* and no list; DryRun and Extract then return an error, and no step of
\* the run creates a backup, starts a session or changes tip, index or
\* working tree.
C34_AnalysisFailureLeavesNothing ==
    [][ ~analysisOk =>
          /\ AnalyzeRangeOrError(head, targetFiles, fromOk, showOk).commits = <<>>
          /\ UNCHANGED <<head, branch, index, worktree, rebase, todo, unmerged,
                         nextHash, backups, sessions, plans, splits>>
          /\ backups = {} /\ sessions = 0
          /\ (pc = "analyze") =>
                 /\ pc' = "done"
                 /\ err' = "failed to analyze commits"
                 /\ commits' = <<>>
          /\ (preview' # preview) =>
                 /\ preview'.err = "failed to analyze commits"
                 /\ preview'.text = ""
      ]_vars

\* C34's case: git show failed on a range holding a commit to split; the
\* preview and the run both ended with the error.
C34_Witness ==
    /\ fromOk /\ ~showOk
    /\ \E i \in 1..Len(head) : analyzeCommit(head[i], targetFiles).NeedsSplit
    /\ preview.called /\ preview.err = "failed to analyze commits"
    /\ pc = "done" /\ err = "failed to analyze commits"
    /\ backups = {} /\ sessions = 0 /\ head = branch

FlaggedCommits == {j \in DOMAIN commits : commits[j].NeedsSplit}

\* The commit a recorded session was started for, as an index of the range.
SessionCommit(i) ==
    CHOOSE j \in DOMAIN commits : commits[j].Hash = plans[i].commit

\* C36: every call of Extract returns; sessions are started for flagged
\* commits only, from the newest to the oldest and never twice for the
\* same one; once a session has failed, is blocked or was aborted the call
\* only reports and returns, starting no other session.
C36_ExtractTerminates ==
    /\ <>(pc = "done")
    /\ [](/\ sessions = Len(plans)
          /\ sessions <= Cardinality(FlaggedCommits)
          /\ \A i \in DOMAIN plans :
                /\ \E j \in FlaggedCommits : commits[j].Hash = plans[i].commit
                /\ \A k \in DOMAIN plans :
                      i < k => SessionCommit(k) < SessionCommit(i))
    /\ [][ (pc = "failed" \/ err # "") =>
               (pc' = "done" /\ sessions' = sessions /\ plans' = plans)
         ]_vars

\* C36's case: the second session of a run failed while a third flagged
\* commit was still to be split, and the call returned with two sessions.
C36_Witness ==
    /\ pc = "done" /\ err # ""
    /\ sessions = 2
    /\ Cardinality(FlaggedCommits) = 3

=============================================================================
